---- MODULE Spec2Model ----
\* Verification model of delete_comments_gui.py (CommentRemoverApp):
\*   - remove_c_comments, the stateful comment-stripping scanner;
\*   - the batch pipeline: start_processing, _worker, _poll_queue,
\*     _handle_event, cancel_processing, on_close, remove_comments_from_file.
EXTENDS Integers, Sequences, FiniteSets, TLC

\* ------------------------------------------------------------------ bounds
\* Longest source text the scanner is run on.
MaxLen == 5
\* Most entries of the directory tree a batch runs over.
MaxFiles == 3
\* Most batches started in one run of the application.
MaxBatches == 2

\* -------------------------------------------------------------- characters
\* The characters remove_c_comments tells apart; Other stands for every
\* character the scanner treats as plain text.
Slash == "/"
Star == "*"
DQuote == "\""
SQuote == "'"
Backslash == "\\"
LF == "\n"
CR == "\r"
Other == "a"

\* Python's None.
None == "None"

Alphabet == {Slash, Star, DQuote, SQuote, Backslash, LF, CR, Other}

\* Every text of at most MaxLen characters.
Texts == UNION {[1..n -> Alphabet] : n \in 0..MaxLen}

VARIABLES
  source,     \* remove_c_comments: the parameter
  i,          \* remove_c_comments: the 0-based scan index
  state,      \* remove_c_comments: the scan state
  result,     \* remove_c_comments: the list of emitted characters
  scan_pc     \* "loop" while in the while loop, "returned" after line 267

VARIABLES
  tree,            \* the directory tree: path -> entry (suffix, kind, text)
  folder_path,     \* folder_path_var
  total_files,     \* self.total_files
  processed_files, \* self.processed_files
  update_queue,    \* self.update_queue, oldest event first
  worker_thread,   \* self.worker_thread: None or the Thread object
  errors,          \* self.errors
  cancel_event,    \* self.cancel_event: TRUE when set
  was_cancelled,   \* self.was_cancelled
  report,          \* the message box _poll_queue showed for this batch
  w_pc,            \* the worker thread's position in _worker
  w_files,         \* _worker: the files argument
  w_index,         \* _worker: index of enumerate(files, start=1)
  w_cleaned,       \* remove_comments_from_file: cleaned_text
  w_exc,           \* _worker: the exception being handled
  m_pc,            \* the main thread's position: idle, or inside _poll_queue
  timers,          \* pending root.after(100, self._poll_queue) callbacks
  exited,          \* root.destroy() was called and the interpreter exited
  batches,         \* batches started so far
  emitted,         \* history: the events _worker put, this batch
  handled,         \* history: the events _handle_event took, this batch
  accessed,        \* history: list positions whose file was read, this batch
  stopped_at       \* history: position at which the cancel check broke, or 0

scanVars == <<source, i, state, result, scan_pc>>
appVars == <<folder_path, total_files, processed_files, update_queue,
             worker_thread, errors, cancel_event, was_cancelled, report>>
workerVars == <<w_pc, w_files, w_index, w_cleaned, w_exc>>
mainVars == <<m_pc, timers, exited, batches>>
historyVars == <<emitted, handled, accessed, stopped_at>>
batchVars == <<tree, appVars, workerVars, mainVars, historyVars>>
vars == <<scanVars, batchVars>>

\* ------------------------------------------------------------ the scanner
\* source[i] of the Python code (0-based).
At(src, k) == src[k + 1]

\* One iteration of the while loop in each state.  Every operator returns the
\* index after the trailing `i += 1`, the next state and the result list.
Scan(k, st, res) == [i |-> k, state |-> st, result |-> res]

MutDefaultBranchNoSkip(src, k, res) ==
  LET ch == At(src, k) IN
  IF ch = DQuote THEN Scan(k + 1, "string", Append(res, ch))
  ELSE IF ch = SQuote THEN Scan(k + 1, "char", Append(res, ch))
  ELSE IF ch = Slash /\ k + 1 < Len(src) THEN
    LET next_ch == At(src, k + 1) IN
    IF next_ch = Slash THEN Scan(k + 1, "single_comment", res)
    ELSE IF next_ch = Star THEN Scan(k + 1, "multi_comment", res)
    ELSE Scan(k + 1, "default", Append(res, ch))
  ELSE Scan(k + 1, "default", Append(res, ch))

MutDefaultBranchDropsSlash(src, k, res) ==
  LET ch == At(src, k) IN
  IF ch = DQuote THEN Scan(k + 1, "string", Append(res, ch))
  ELSE IF ch = SQuote THEN Scan(k + 1, "char", Append(res, ch))
  ELSE IF ch = Slash /\ k + 1 < Len(src) THEN
    LET next_ch == At(src, k + 1) IN
    IF next_ch = Slash THEN Scan(k + 2, "single_comment", res)
    ELSE IF next_ch = Star THEN Scan(k + 2, "multi_comment", res)
    ELSE Scan(k + 1, "default", res)
  ELSE Scan(k + 1, "default", Append(res, ch))

DefaultBranch(src, k, res) ==
  LET ch == At(src, k) IN
  IF ch = DQuote THEN Scan(k + 1, "string", Append(res, ch))
  ELSE IF ch = SQuote THEN Scan(k + 1, "char", Append(res, ch))
  ELSE IF ch = Slash /\ k + 1 < Len(src) THEN
    LET next_ch == At(src, k + 1) IN
    IF next_ch = Slash THEN Scan(k + 2, "single_comment", res)
    ELSE IF next_ch = Star THEN Scan(k + 2, "multi_comment", res)
    ELSE Scan(k + 1, "default", Append(res, ch))
  ELSE Scan(k + 1, "default", Append(res, ch))

MutStringBranchDropsEscaped(src, k, res) ==
  LET ch == At(src, k) IN
  IF ch = Backslash /\ k + 1 < Len(src)
  THEN Scan(k + 2, "string", Append(res, ch))
  ELSE IF ch = DQuote THEN Scan(k + 1, "default", Append(res, ch))
  ELSE Scan(k + 1, "string", Append(res, ch))

StringBranch(src, k, res) ==
  LET ch == At(src, k) IN
  IF ch = Backslash /\ k + 1 < Len(src)
  THEN Scan(k + 2, "string", Append(Append(res, ch), At(src, k + 1)))
  ELSE IF ch = DQuote THEN Scan(k + 1, "default", Append(res, ch))
  ELSE Scan(k + 1, "string", Append(res, ch))

MutCharBranchWrongQuote(src, k, res) ==
  LET ch == At(src, k) IN
  IF ch = Backslash /\ k + 1 < Len(src)
  THEN Scan(k + 2, "char", Append(Append(res, ch), At(src, k + 1)))
  ELSE IF ch = DQuote THEN Scan(k + 1, "default", Append(res, ch))
  ELSE Scan(k + 1, "char", Append(res, ch))

MutCharBranchNoEscape(src, k, res) ==
  LET ch == At(src, k) IN
  IF ch = SQuote THEN Scan(k + 1, "default", Append(res, ch))
  ELSE Scan(k + 1, "char", Append(res, ch))

CharBranch(src, k, res) ==
  LET ch == At(src, k) IN
  IF ch = Backslash /\ k + 1 < Len(src)
  THEN Scan(k + 2, "char", Append(Append(res, ch), At(src, k + 1)))
  ELSE IF ch = SQuote THEN Scan(k + 1, "default", Append(res, ch))
  ELSE Scan(k + 1, "char", Append(res, ch))

MutSingleCommentDropsNewline(src, k, res) ==
  LET ch == At(src, k) IN
  IF ch = LF THEN Scan(k + 1, "default", res)
  ELSE Scan(k + 1, "single_comment", res)

SingleCommentBranch(src, k, res) ==
  LET ch == At(src, k) IN
  IF ch = LF THEN Scan(k + 1, "default", Append(res, ch))
  ELSE Scan(k + 1, "single_comment", res)

MutMultiCommentKeepsText(src, k, res) ==
  LET ch == At(src, k) IN
  IF ch = Star /\ k + 1 < Len(src) /\ At(src, k + 1) = Slash
  THEN Scan(k + 2, "default", res)
  ELSE IF ch \in {CR, LF, Star} THEN Scan(k + 1, "multi_comment", Append(res, ch))
  ELSE Scan(k + 1, "multi_comment", res)

MutMultiCommentNoSkip(src, k, res) ==
  LET ch == At(src, k) IN
  IF ch = Star /\ k + 1 < Len(src) /\ At(src, k + 1) = Slash
  THEN Scan(k + 1, "default", res)
  ELSE IF ch \in {CR, LF} THEN Scan(k + 1, "multi_comment", Append(res, ch))
  ELSE Scan(k + 1, "multi_comment", res)

MultiCommentBranch(src, k, res) ==
  LET ch == At(src, k) IN
  IF ch = Star /\ k + 1 < Len(src) /\ At(src, k + 1) = Slash
  THEN Scan(k + 2, "default", res)
  ELSE IF ch \in {CR, LF} THEN Scan(k + 1, "multi_comment", Append(res, ch))
  ELSE Scan(k + 1, "multi_comment", res)

\* The body of the while loop: the branch of the current state.
LoopBody(src, k, st, res) ==
  CASE st = "default" -> DefaultBranch(src, k, res)
    [] st = "string" -> StringBranch(src, k, res)
    [] st = "char" -> CharBranch(src, k, res)
    [] st = "single_comment" -> SingleCommentBranch(src, k, res)
    [] st = "multi_comment" -> MultiCommentBranch(src, k, res)

\* The while loop run from (k, st, res) to the end of the text.
RECURSIVE ScanFrom(_, _, _, _)
ScanFrom(src, k, st, res) ==
  IF k < Len(src)
  THEN LET n == LoopBody(src, k, st, res) IN ScanFrom(src, n.i, n.state, n.result)
  ELSE Scan(k, st, res)

\* remove_c_comments(source): the returned text.
remove_c_comments(src) == ScanFrom(src, 0, "default", <<>>).result

\* --------------------------------------------------- the scanner, stepwise
\* The application as __init__ leaves it, over an empty tree.
AppConstructed ==
  /\ folder_path = ""
  /\ total_files = 0
  /\ processed_files = 0
  /\ update_queue = <<>>
  /\ worker_thread = None
  /\ errors = <<>>
  /\ cancel_event = FALSE
  /\ was_cancelled = FALSE
  /\ report = None
  /\ w_pc = "none"
  /\ w_files = <<>>
  /\ w_index = 0
  /\ w_cleaned = <<>>
  /\ w_exc = None
  /\ m_pc = "idle"
  /\ timers = 0
  /\ exited = FALSE
  /\ batches = 0
  /\ emitted = <<>>
  /\ handled = <<>>
  /\ accessed = {}
  /\ stopped_at = 0

InitScan ==
  /\ source \in Texts
  /\ i = 0
  /\ state = "default"
  /\ result = <<>>
  /\ scan_pc = "loop"
  /\ tree = <<>>
  /\ AppConstructed

\* The assignments one loop iteration makes, n being the branch's outcome.
Assign(n) ==
  /\ i' = n.i
  /\ state' = n.state
  /\ result' = n.result
  /\ UNCHANGED <<source, scan_pc, batchVars>>

\* The loop is entered (i < length) in scan state st.
InLoop(st) == scan_pc = "loop" /\ i < Len(source) /\ state = st

ScanDefault ==
  /\ InLoop("default")
  /\ Assign(DefaultBranch(source, i, result))

ScanString ==
  /\ InLoop("string")
  /\ Assign(StringBranch(source, i, result))

ScanChar ==
  /\ InLoop("char")
  /\ Assign(CharBranch(source, i, result))

ScanSingleComment ==
  /\ InLoop("single_comment")
  /\ Assign(SingleCommentBranch(source, i, result))

ScanMultiComment ==
  /\ InLoop("multi_comment")
  /\ Assign(MultiCommentBranch(source, i, result))

\* The loop condition fails: return "".join(result).
ScanReturn ==
  /\ scan_pc = "loop"
  /\ ~(i < Len(source))
  /\ scan_pc' = "returned"
  /\ UNCHANGED <<source, i, state, result, batchVars>>

NextScan ==
  \/ ScanDefault
  \/ ScanString
  \/ ScanChar
  \/ ScanSingleComment
  \/ ScanMultiComment
  \/ ScanReturn

SpecScan == InitScan /\ [][NextScan]_vars

\* ------------------------------------------------------- the file system
\* A text with a line comment after code, and what is left once it is cleaned.
CommentedText == <<Other, Slash, Slash, Other>>
CleanText == <<Other>>

\* The entries a directory tree may hold under one path: regular files with
\* or without a comment, a directory whose name ends in .c, and a file with
\* another suffix.
Entry(sfx, kd, txt) == [suffix |-> sfx, kind |-> kd, text |-> txt]
Entries ==
  { Entry(".c", "file", CommentedText),
    Entry(".h", "file", CleanText),
    Entry(".c", "dir", <<>>),
    Entry(".txt", "file", CommentedText) }

\* Paths are numbered in the order Path.__lt__ gives them.
Trees == UNION {[1..n -> Entries] : n \in 1..MaxFiles}

\* root_path.rglob("*" + sfx): the paths whose name ends in sfx.
Rglob(t, sfx) == {p \in DOMAIN t : t[p].suffix = sfx}

\* The paths of S in ascending and in descending order.
RECURSIVE Ascending(_)
Ascending(S) ==
  IF S = {} THEN <<>>
  ELSE LET x == CHOOSE y \in S : \A z \in S : y <= z
       IN <<x>> \o Ascending(S \ {x})

RECURSIVE Descending(_)
Descending(S) ==
  IF S = {} THEN <<>>
  ELSE LET x == CHOOSE y \in S : \A z \in S : z <= y
       IN <<x>> \o Descending(S \ {x})

\* Orders in which a directory walk may yield the paths of S: the walk
\* follows the directory's own order, which need not be that of the names.
Orders(S) == {Ascending(S), Descending(S)}

\* list.sort(): insertion of each element at its place.
RECURSIVE Sorted(_)
Sorted(l) ==
  IF l = <<>> THEN <<>>
  ELSE LET rest == Sorted(Tail(l))
           below == SelectSeq(rest, LAMBDA x : x < Head(l))
           above == SelectSeq(rest, LAMBDA x : ~(x < Head(l)))
       IN below \o <<Head(l)>> \o above

\* collect_target_files(root_path), the two walks yielding cs and hs.
collect_target_files(cs, hs) == Sorted(cs \o hs)

\* ------------------------------------------------------------ the worker
\* Thread.is_alive() of the worker thread.
IsAlive == w_pc \notin {"none", "dead"} /\ ~exited

\* self.worker_thread and self.worker_thread.is_alive()
WorkerRunning == worker_thread # None /\ IsAlive

\* self.update_queue.put(event)
Put(event) ==
  /\ update_queue' = Append(update_queue, event)
  /\ emitted' = Append(emitted, event)

\* The loop without its break: the check finds the flag set and goes on.
MutWorkerLoopNoBreak ==
  /\ IsAlive
  /\ w_pc = "loop"
  /\ IF w_index > Len(w_files)
     THEN w_pc' = "final" /\ UNCHANGED stopped_at
     ELSE IF cancel_event
     THEN w_pc' = "read" /\ stopped_at' = w_index
     ELSE w_pc' = "read" /\ UNCHANGED stopped_at
  /\ UNCHANGED <<scanVars, tree, appVars, w_files, w_index, w_cleaned, w_exc,
                 mainVars, emitted, handled, accessed>>

\* Lines 126-128: the next file of the list, and the cancellation check.
WorkerLoop ==
  /\ IsAlive
  /\ w_pc = "loop"
  /\ IF w_index > Len(w_files)
     THEN w_pc' = "final" /\ UNCHANGED stopped_at
     ELSE IF cancel_event
     THEN w_pc' = "final" /\ stopped_at' = w_index
     ELSE w_pc' = "read" /\ UNCHANGED stopped_at
  /\ UNCHANGED <<scanVars, tree, appVars, w_files, w_index, w_cleaned, w_exc,
                 mainVars, emitted, handled, accessed>>

\* The rewriter with the comparison of line 209 left out: every file read is
\* written back.
MutWorkerReadAlwaysWrites ==
  /\ IsAlive
  /\ w_pc = "read"
  /\ accessed' = accessed \cup {w_index}
  /\ LET entry == tree[w_files[w_index]]
         original_text == entry.text
         cleaned_text == remove_c_comments(original_text)
     IN IF entry.kind = "dir"
        THEN w_pc' = "except" /\ w_exc' = "IsADirectoryError" /\ UNCHANGED w_cleaned
        ELSE w_pc' = "write" /\ w_cleaned' = cleaned_text /\ UNCHANGED w_exc
  /\ UNCHANGED <<scanVars, tree, appVars, w_files, w_index, mainVars,
                 emitted, handled, stopped_at>>

\* Lines 207-209: read_text, remove_c_comments and the comparison.
WorkerRead ==
  /\ IsAlive
  /\ w_pc = "read"
  /\ accessed' = accessed \cup {w_index}
  /\ LET entry == tree[w_files[w_index]]
         original_text == entry.text
         cleaned_text == remove_c_comments(original_text)
     IN IF entry.kind = "dir"
        THEN w_pc' = "except" /\ w_exc' = "IsADirectoryError" /\ UNCHANGED w_cleaned
        ELSE IF cleaned_text # original_text
        THEN w_pc' = "write" /\ w_cleaned' = cleaned_text /\ UNCHANGED w_exc
        ELSE w_pc' = "progress" /\ UNCHANGED <<w_cleaned, w_exc>>
  /\ UNCHANGED <<scanVars, tree, appVars, w_files, w_index, mainVars,
                 emitted, handled, stopped_at>>

\* Line 210, write_text opening the file for writing: the file is truncated,
\* or the open fails (permission denied, disk full) and OSError is raised.
WorkerOpen ==
  /\ IsAlive
  /\ w_pc = "write"
  /\ \E opened \in BOOLEAN :
       IF opened
       THEN /\ tree' = [tree EXCEPT ![w_files[w_index]].text = <<>>]
            /\ w_pc' = "flush"
            /\ UNCHANGED w_exc
       ELSE /\ w_pc' = "except"
            /\ w_exc' = "OSError"
            /\ UNCHANGED tree
  /\ UNCHANGED <<scanVars, appVars, w_files, w_index, w_cleaned, mainVars, historyVars>>

\* Line 210, write_text writing cleaned_text and closing the file.
WorkerFlush ==
  /\ IsAlive
  /\ w_pc = "flush"
  /\ tree' = [tree EXCEPT ![w_files[w_index]].text = w_cleaned]
  /\ w_pc' = "progress"
  /\ UNCHANGED <<scanVars, appVars, w_files, w_index, w_cleaned, w_exc, mainVars,
                 historyVars>>

\* The progress event numbered from 0, as enumerate without start=1 would.
MutWorkerProgressFromZero ==
  /\ IsAlive
  /\ w_pc = "progress"
  /\ Put(<<"progress", w_index - 1, w_files[w_index]>>)
  /\ w_index' = w_index + 1
  /\ w_pc' = "loop"
  /\ UNCHANGED <<scanVars, tree, folder_path, total_files, processed_files,
                 worker_thread, errors, cancel_event, was_cancelled, report,
                 w_files, w_cleaned, w_exc, mainVars, handled, accessed, stopped_at>>

\* Line 131: the progress event of a file that was rewritten without error.
WorkerProgress ==
  /\ IsAlive
  /\ w_pc = "progress"
  /\ Put(<<"progress", w_index, w_files[w_index]>>)
  /\ w_index' = w_index + 1
  /\ w_pc' = "loop"
  /\ UNCHANGED <<scanVars, tree, folder_path, total_files, processed_files,
                 worker_thread, errors, cancel_event, was_cancelled, report,
                 w_files, w_cleaned, w_exc, mainVars, handled, accessed, stopped_at>>

\* The exception handler ending the batch: the loop is left after the event.
MutWorkerErrorEndsBatch ==
  /\ IsAlive
  /\ w_pc = "except"
  /\ errors' = Append(errors, <<w_files[w_index], w_exc>>)
  /\ Put(<<"error", w_index, w_files[w_index], w_exc>>)
  /\ w_index' = w_index + 1
  /\ w_exc' = None
  /\ w_pc' = "final"
  /\ UNCHANGED <<scanVars, tree, folder_path, total_files, processed_files,
                 worker_thread, cancel_event, was_cancelled, report,
                 w_files, w_cleaned, mainVars, handled, accessed, stopped_at>>

\* Lines 132-134: the exception handler.  Nothing reads self.errors while the
\* worker is alive, so the append and the put are taken as one step.
WorkerError ==
  /\ IsAlive
  /\ w_pc = "except"
  /\ errors' = Append(errors, <<w_files[w_index], w_exc>>)
  /\ Put(<<"error", w_index, w_files[w_index], w_exc>>)
  /\ w_index' = w_index + 1
  /\ w_exc' = None
  /\ w_pc' = "loop"
  /\ UNCHANGED <<scanVars, tree, folder_path, total_files, processed_files,
                 worker_thread, cancel_event, was_cancelled, report,
                 w_files, w_cleaned, mainVars, handled, accessed, stopped_at>>

\* The terminal event with the test of line 135 left out.
MutWorkerFinalAlwaysDone ==
  /\ IsAlive
  /\ w_pc = "final"
  /\ Put(<<"done", None>>)
  /\ w_pc' = "exit"
  /\ UNCHANGED <<scanVars, tree, folder_path, total_files, processed_files,
                 worker_thread, errors, cancel_event, was_cancelled, report,
                 w_files, w_index, w_cleaned, w_exc, mainVars, handled, accessed,
                 stopped_at>>

\* Lines 135-138: the terminal event.
WorkerFinal ==
  /\ IsAlive
  /\ w_pc = "final"
  /\ IF cancel_event THEN Put(<<"cancelled", None>>) ELSE Put(<<"done", None>>)
  /\ w_pc' = "exit"
  /\ UNCHANGED <<scanVars, tree, folder_path, total_files, processed_files,
                 worker_thread, errors, cancel_event, was_cancelled, report,
                 w_files, w_index, w_cleaned, w_exc, mainVars, handled, accessed,
                 stopped_at>>

\* _worker returns and the thread ends: is_alive() is False from here on.
WorkerExit ==
  /\ IsAlive
  /\ w_pc = "exit"
  /\ w_pc' = "dead"
  /\ UNCHANGED <<scanVars, tree, appVars, w_files, w_index, w_cleaned, w_exc,
                 mainVars, historyVars>>

\* ------------------------------------------------------- the main thread
\* Tk runs one callback at a time, and none once the root is destroyed.
MainIdle == m_pc = "idle" /\ ~exited

\* The folders askdirectory offers; target.exists() and target.is_dir().
Folders == {"root"}
IsDir(folder) == folder \in Folders

\* Most errors the completion message lists (line 163).
ErrorsShown == 5

\* select_folder: askdirectory returns a folder, or "" when dismissed.
SelectFolder ==
  /\ MainIdle
  /\ \E selected \in Folders \cup {""} :
       folder_path' = IF selected # "" THEN selected ELSE folder_path
  /\ UNCHANGED <<scanVars, tree, total_files, processed_files, update_queue,
                 worker_thread, errors, cancel_event, was_cancelled, report,
                 workerVars, mainVars, historyVars>>

\* start_processing, lines 76-78: a batch is running; only the warning shows.
StartProcessingRejected ==
  /\ MainIdle
  /\ WorkerRunning
  /\ UNCHANGED vars

\* start_processing, lines 80-93: no folder, a bad folder, or no target file.
StartProcessingNothing ==
  /\ MainIdle
  /\ ~WorkerRunning
  /\ \/ folder_path = ""
     \/ ~IsDir(folder_path)
     \/ Rglob(tree, ".c") \cup Rglob(tree, ".h") = {}
  /\ UNCHANGED vars

\* start_processing with the test of lines 76-78 left out.
MutStartProcessingNoGuard ==
  /\ MainIdle
  /\ folder_path # ""
  /\ IsDir(folder_path)
  /\ batches < MaxBatches
  /\ \E cs \in Orders(Rglob(tree, ".c")), hs \in Orders(Rglob(tree, ".h")) :
       LET files == collect_target_files(cs, hs) IN
         /\ files # <<>>
         /\ total_files' = Len(files)
         /\ w_files' = files
  /\ processed_files' = 0
  /\ errors' = <<>>
  /\ was_cancelled' = FALSE
  /\ update_queue' = <<>>
  /\ cancel_event' = FALSE
  /\ worker_thread' = "Thread"
  /\ w_pc' = "loop"
  /\ w_index' = 1
  /\ w_cleaned' = <<>>
  /\ w_exc' = None
  /\ timers' = timers + 1
  /\ batches' = batches + 1
  /\ report' = None
  /\ emitted' = <<>>
  /\ handled' = <<>>
  /\ accessed' = {}
  /\ stopped_at' = 0
  /\ UNCHANGED <<scanVars, tree, folder_path, m_pc, exited>>

\* start_processing, lines 95-116: the batch is set up and the worker started.
StartProcessing ==
  /\ MainIdle
  /\ ~WorkerRunning
  /\ folder_path # ""
  /\ IsDir(folder_path)
  /\ batches < MaxBatches
  /\ \E cs \in Orders(Rglob(tree, ".c")), hs \in Orders(Rglob(tree, ".h")) :
       LET files == collect_target_files(cs, hs) IN
         /\ files # <<>>
         /\ total_files' = Len(files)
         /\ w_files' = files
  /\ processed_files' = 0
  /\ errors' = <<>>
  /\ was_cancelled' = FALSE
  /\ update_queue' = <<>>
  /\ cancel_event' = FALSE
  /\ worker_thread' = "Thread"
  /\ w_pc' = "loop"
  /\ w_index' = 1
  /\ w_cleaned' = <<>>
  /\ w_exc' = None
  /\ timers' = timers + 1
  /\ batches' = batches + 1
  /\ report' = None
  /\ emitted' = <<>>
  /\ handled' = <<>>
  /\ accessed' = {}
  /\ stopped_at' = 0
  /\ UNCHANGED <<scanVars, tree, folder_path, m_pc, exited>>

\* cancel_processing
CancelProcessing ==
  /\ MainIdle
  /\ cancel_event' = IF WorkerRunning THEN TRUE ELSE cancel_event
  /\ UNCHANGED <<scanVars, tree, folder_path, total_files, processed_files,
                 update_queue, worker_thread, errors, was_cancelled, report,
                 workerVars, mainVars, historyVars>>

\* on_close: with a batch running the user is asked; "no" keeps the window.
\* root.destroy() ends mainloop, main returns and the interpreter exits; the
\* worker is a daemon thread (line 113), so it is stopped wherever it is.  The
\* steps the worker takes between destroy() and the exit are those it takes
\* when on_close runs that much later.
OnClose ==
  /\ MainIdle
  /\ \E yes \in BOOLEAN :
       IF WorkerRunning
       THEN IF ~yes
            THEN UNCHANGED <<cancel_event, exited>>
            ELSE cancel_event' = TRUE /\ exited' = TRUE
       ELSE exited' = TRUE /\ UNCHANGED cancel_event
  /\ UNCHANGED <<scanVars, tree, folder_path, total_files, processed_files,
                 update_queue, worker_thread, errors, was_cancelled, report,
                 workerVars, m_pc, timers, batches, historyVars>>

\* A root.after(100, self._poll_queue) timer fires: _poll_queue is entered.
PollEnter ==
  /\ MainIdle
  /\ timers > 0
  /\ timers' = timers - 1
  /\ m_pc' = "drain"
  /\ UNCHANGED <<scanVars, tree, appVars, workerVars, exited, batches,
                 historyVars>>

\* _handle_event: the fields it assigns, as <<processed_files, was_cancelled>>.
HandleEvent(event) ==
  LET event_type == event[1] IN
  IF event_type \in {"progress", "error"} THEN <<event[2], was_cancelled>>
  ELSE IF event_type = "cancelled" THEN <<processed_files, TRUE>>
  ELSE IF event_type = "done" THEN <<total_files, was_cancelled>>
  ELSE <<processed_files, was_cancelled>>

\* Lines 143-144: get_nowait returns an event and _handle_event takes it.
PollGet ==
  /\ m_pc = "drain"
  /\ update_queue # <<>>
  /\ LET event == Head(update_queue) IN
       /\ processed_files' = HandleEvent(event)[1]
       /\ was_cancelled' = HandleEvent(event)[2]
       /\ handled' = Append(handled, event)
  /\ update_queue' = Tail(update_queue)
  /\ UNCHANGED <<scanVars, tree, folder_path, total_files, worker_thread, errors,
                 cancel_event, report, workerVars, mainVars, emitted, accessed,
                 stopped_at>>

\* Lines 145-146: get_nowait raises queue.Empty and the loop is left.
PollEmpty ==
  /\ m_pc = "drain"
  /\ update_queue = <<>>
  /\ m_pc' = "alive"
  /\ UNCHANGED <<scanVars, tree, appVars, workerVars, timers, exited,
                 batches, historyVars>>

\* The message box of lines 154-167.
Outcome ==
  IF was_cancelled THEN <<"cancelled", processed_files, total_files>>
  ELSE IF errors # <<>>
  THEN <<"warning", SubSeq(errors, 1, IF Len(errors) > ErrorsShown THEN ErrorsShown ELSE Len(errors))>>
  ELSE <<"complete">>

\* Lines 148-149: the worker is alive and _poll_queue is scheduled again.
PollAgain ==
  /\ m_pc = "alive"
  /\ WorkerRunning
  /\ timers' = timers + 1
  /\ m_pc' = "idle"
  /\ UNCHANGED <<scanVars, tree, appVars, workerVars, exited, batches,
                 historyVars>>

\* Lines 150-168: the worker is not alive; the outcome is reported.
PollComplete ==
  /\ m_pc = "alive"
  /\ ~WorkerRunning
  /\ IF worker_thread # None
     THEN report' = Outcome /\ worker_thread' = None
     ELSE UNCHANGED <<report, worker_thread>>
  /\ m_pc' = "idle"
  /\ UNCHANGED <<scanVars, tree, folder_path, total_files, processed_files,
                 update_queue, errors, cancel_event, was_cancelled, workerVars,
                 timers, exited, batches, historyVars>>

InitBatch ==
  /\ source = <<>>
  /\ i = 0
  /\ state = "default"
  /\ result = <<>>
  /\ scan_pc = "loop"
  /\ tree \in Trees
  /\ AppConstructed

NextBatch ==
  \/ SelectFolder
  \/ StartProcessingRejected
  \/ StartProcessingNothing
  \/ StartProcessing
  \/ CancelProcessing
  \/ OnClose
  \/ PollEnter
  \/ PollGet
  \/ PollEmpty
  \/ PollAgain
  \/ PollComplete
  \/ WorkerLoop
  \/ WorkerRead
  \/ WorkerOpen
  \/ WorkerFlush
  \/ WorkerProgress
  \/ WorkerError
  \/ WorkerFinal
  \/ WorkerExit

SpecBatch == InitBatch /\ [][NextBatch]_vars

\* ------------------------------------------- properties of the scanner
Min(S) == CHOOSE x \in S : \A y \in S : x <= y

\* The line-ending characters of a text, in order.
IsEol(c) == c \in {CR, LF}
KeepEol(t) == SelectSeq(t, IsEol)

IsLF(c) == c = LF
CountLF(t) == Len(SelectSeq(t, IsLF))

\* The number of backslashes that immediately precede position j (1-based) of
\* s, counted no further back than position lo.
BackslashRun(s, lo, j) ==
  LET starts == {b \in lo..j : \A m \in b..(j - 1) : s[m] = Backslash}
  IN j - Min(starts)

\* Position j is taken by the escape that starts an odd run of backslashes.
Escaped(s, lo, j) == BackslashRun(s, lo, j) % 2 = 1

\* Last position of the literal whose opening quote is at position p: its
\* first unescaped closing quote, or the end of the text.
LiteralEnd(s, p) ==
  LET closers == {j \in (p + 1)..Len(s) : s[j] = s[p] /\ ~Escaped(s, p + 1, j)}
  IN IF closers = {} THEN Len(s) ELSE Min(closers)

\* First LF at or after position p, or one past the end of the text.
LineEnd(s, p) ==
  LET lfs == {j \in p..Len(s) : s[j] = LF}
  IN IF lfs = {} THEN Len(s) + 1 ELSE Min(lfs)

\* Last position of the block comment whose interior starts at position p:
\* the slash of the next star-slash pair, or the end of the text.
BlockEnd(s, p) ==
  LET stars == {j \in p..(Len(s) - 1) : s[j] = Star /\ s[j + 1] = Slash}
  IN IF stars = {} THEN Len(s) ELSE Min(stars) + 1

\* The text from position p on, p being in Default state, with every comment
\* region deleted but for the line endings inside block comments.
RECURSIVE StripRegions(_, _)
StripRegions(s, p) ==
  IF p > Len(s) THEN <<>>
  ELSE IF s[p] \in {DQuote, SQuote} THEN
    LET e == LiteralEnd(s, p) IN SubSeq(s, p, e) \o StripRegions(s, e + 1)
  ELSE IF s[p] = Slash /\ p < Len(s) /\ s[p + 1] = Slash THEN
    StripRegions(s, LineEnd(s, p + 2))
  ELSE IF s[p] = Slash /\ p < Len(s) /\ s[p + 1] = Star THEN
    LET e == BlockEnd(s, p + 2) IN KeepEol(SubSeq(s, p, e)) \o StripRegions(s, e + 1)
  ELSE <<s[p]>> \o StripRegions(s, p + 1)

Returned == scan_pc = "returned"

\* C1: the text remove_c_comments returns is the input with each comment region
\* deleted (a line comment up to, not including, the next LF; a block comment
\* up to and including the next star-slash), only the CR and LF inside block
\* comments being kept, and everything else emitted verbatim.
C1_CommentRegionsDeleted == Returned => result = StripRegions(source, 1)

\* A block comment holding a line ending: only the LF is kept.
C1_Witness ==
  /\ Returned
  /\ source = <<Slash, Star, LF, Star, Slash>>
  /\ result = <<LF>>

\* P holds no quote and no comment opener.
CommentFreeCode(P) ==
  /\ \A k \in 1..Len(P) : P[k] \notin {DQuote, SQuote}
  /\ \A k \in 1..(Len(P) - 1) : ~(P[k] = Slash /\ P[k + 1] \in {Slash, Star})

\* t is made of characters other than backslash and q, and of pairs of a
\* backslash and any character.
RECURSIVE IsInterior(_, _)
IsInterior(t, q) ==
  IF t = <<>> THEN TRUE
  ELSE IF Head(t) = Backslash THEN Len(t) >= 2 /\ IsInterior(SubSeq(t, 3, Len(t)), q)
  ELSE IF Head(t) = q THEN FALSE
  ELSE IsInterior(Tail(t), q)

\* L is a terminated string or char literal.
IsLiteral(L) ==
  /\ Len(L) >= 2
  /\ L[1] \in {DQuote, SQuote}
  /\ L[Len(L)] = L[1]
  /\ IsInterior(SubSeq(L, 2, Len(L) - 1), L[1])

\* The splits source = P + L + S of the claim: P is the first p characters and
\* L ends at position e.
LiteralSplits ==
  {pe \in (0..Len(source)) \X (1..Len(source)) :
     /\ pe[1] + 2 <= pe[2]
     /\ CommentFreeCode(SubSeq(source, 1, pe[1]))
     /\ IsLiteral(SubSeq(source, pe[1] + 1, pe[2]))}

\* C2: literal preservation: for an input P + L + S, P without quotes and
\* comment openers and L a terminated literal, the output is P + L followed by
\* the scan of S from Default state.
C2_LiteralPreserved ==
  Returned =>
    \A pe \in LiteralSplits :
      result = SubSeq(source, 1, pe[2])
                 \o remove_c_comments(SubSeq(source, pe[2] + 1, Len(source)))

\* A string literal holding a line-comment opener, after code.
C2_Witness ==
  /\ Returned
  /\ source = <<Other, DQuote, Slash, Slash, DQuote>>
  /\ <<1, 5>> \in LiteralSplits
  /\ result = source

\* C3: idempotence: scanning the returned text again returns it unchanged.
C3_Idempotent == Returned => remove_c_comments(result) = result

\* A line comment was deleted from between emitted characters.
C3_Witness ==
  /\ Returned
  /\ source = <<Other, Slash, Slash, LF, Slash>>
  /\ result = <<Other, LF, Slash>>

\* C4: line-ending preservation: the CR and LF characters of the output are
\* those of the input, in order.
C4_LineEndingsPreserved == Returned => KeepEol(result) = KeepEol(source)

\* C5: line-count preservation: with no unterminated block comment in the
\* input, the output has as many LF characters as the input.
C5_LineCountPreserved ==
  (Returned /\ state # "multi_comment") => CountLF(result) = CountLF(source)

\* A line comment ended by an LF, with code after it.
C5_Witness ==
  /\ Returned
  /\ state # "multi_comment"
  /\ source = <<Slash, Slash, Other, LF, Other>>
  /\ result = <<LF, Other>>

\* t holds no star-slash pair, no CR and no LF.
BlockInterior(t) ==
  /\ \A k \in 1..Len(t) : ~IsEol(t[k])
  /\ \A k \in 1..(Len(t) - 1) : ~(t[k] = Star /\ t[k + 1] = Slash)

\* Every q in t is escaped by a backslash pair.
OpenInterior(t, q) == \A j \in 1..Len(t) : t[j] = q => Escaped(t, 1, j)

\* C6: the scan is total (the loop either has a step to take or has returned,
\* and the index never leaves the text), an unterminated block comment without
\* line endings yields the empty text, and an unterminated literal is
\* returned unchanged.
C6_TotalAndUnterminated ==
  /\ i \in 0..Len(source)
  /\ Returned \/ ENABLED NextScan
  /\ (Returned /\ Len(source) >= 2 /\ source[1] = Slash /\ source[2] = Star
        /\ BlockInterior(SubSeq(source, 3, Len(source))))
       => result = <<>>
  /\ (Returned /\ Len(source) >= 1 /\ source[1] \in {DQuote, SQuote}
        /\ OpenInterior(Tail(source), source[1]))
       => result = source

\* An unterminated string literal holding an escaped quote and a comment opener.
C6_Witness ==
  /\ Returned
  /\ source = <<DQuote, Backslash, DQuote, Slash, Slash>>
  /\ result = source

\* ------------------------------------------- properties of the batch
IsTerminal(event) == event[1] \in {"cancelled", "done"}
Last(l) == l[Len(l)]

\* The worker has put its terminal event.
WorkerFinished == w_pc \in {"exit", "dead"}

\* C7: once the per-file check finds the cancel flag set before the file at
\* position k, the worker never enters the rewriter again, no file at position
\* k or later is read or written, no progress or error event carries such a
\* position, and the terminal event is "cancelled".
C7_CancelStopsAtBoundary ==
  stopped_at # 0 =>
    /\ w_pc \in {"final", "exit", "dead"}
    /\ \A k \in accessed : k < stopped_at
    /\ \A n \in 1..Len(emitted) :
         ~IsTerminal(emitted[n]) => emitted[n][2] < stopped_at
    /\ WorkerFinished => Last(emitted) = <<"cancelled", None>>

\* Cancelled after file 1 of 3: files 2 and 3 were never read.
C7_Witness ==
  /\ stopped_at = 2
  /\ Len(w_files) = 3
  /\ w_pc = "dead"
  /\ accessed = {1}
  /\ Last(emitted) = <<"cancelled", None>>

\* C8 as claimed: when every file was handed to the rewriter (no per-file
\* check found the flag set), the terminal event is "done".
C8_ExhaustedEndsDone ==
  (WorkerFinished /\ stopped_at = 0) => Last(emitted) = <<"done", None>>

\* C8 as amended: when every file was handed to the rewriter, the terminal
\* event is "done" if the cancel flag is clear at the worker's check after the
\* loop (line 135), and "cancelled" if it is set by then.
C8_ExhaustedEndsByFinalCheck ==
  [][(w_pc = "final" /\ w_pc' = "exit" /\ stopped_at = 0)
       => emitted' = Append(emitted,
                            IF cancel_event THEN <<"cancelled", None>>
                                            ELSE <<"done", None>>)]_vars

\* Every file of a three-file list was read, cancel was requested during the
\* last one, and the batch ended "cancelled".
C8_Witness ==
  /\ WorkerFinished
  /\ stopped_at = 0
  /\ Len(w_files) = 3
  /\ accessed = {1, 2, 3}
  /\ Last(emitted) = <<"cancelled", None>>

\* C9: when _poll_queue has taken its completion branch and reported the
\* outcome, every event the worker put, the terminal one included, has been
\* handled.
C9_ReportAfterAllEventsHandled == report # None => handled = emitted

\* C10: a file whose rewrite has begun always finishes: the worker is never
\* stopped part-way through the write of a file, that is after write_text has
\* truncated the file and before the cleaned text is in it.
C10_WriteNeverCutShort == exited => w_pc # "flush"

\* The error events of l, each as the pair the handler appends to self.errors.
RECURSIVE ErrorEntries(_)
ErrorEntries(l) ==
  IF l = <<>> THEN <<>>
  ELSE IF Head(l)[1] = "error"
  THEN <<(<<Head(l)[3], Head(l)[4]>>)>> \o ErrorEntries(Tail(l))
  ELSE ErrorEntries(Tail(l))

\* The events put for the file at position k.
EventsOf(k) ==
  SelectSeq(emitted, LAMBDA event : ~IsTerminal(event) /\ event[2] = k)

\* C11: a failure of the rewriter on the file at position k is caught in the
\* worker: the handler puts the error event (k, path, message) and appends
\* one entry to the error list in the same step, puts no progress event for
\* that file, and hands control back to the per-file check with position
\* k + 1; a worker that was not cancelled reaches the end of the list
\* whatever failed on the way.
C11_ErrorIsolated ==
  /\ errors = ErrorEntries(emitted)
  /\ w_pc = "except" => (w_exc # None /\ EventsOf(w_index) = <<>>)
  /\ \A k \in 1..Len(w_files) :
       (k < w_index /\ tree[w_files[k]].kind = "dir")
         => EventsOf(k) = <<(<<"error", k, w_files[k], "IsADirectoryError">>)>>
  /\ (w_pc \in {"final", "exit", "dead"} /\ stopped_at = 0)
       => w_index = Len(w_files) + 1

\* The first of two files failed, the second was processed and the batch
\* ended "done".
C11_Witness ==
  /\ w_pc = "dead"
  /\ Len(w_files) = 2
  /\ Len(errors) = 1
  /\ emitted = <<(<<"error", 1, w_files[1], "IsADirectoryError">>),
                 (<<"progress", 2, w_files[2]>>),
                 (<<"done", None>>)>>


\* l is an initial part of m.
IsPrefix(l, m) == Len(l) <= Len(m) /\ SubSeq(m, 1, Len(l)) = l

\* C12: while a worker is alive no step sets up a batch: no worker is
\* created (the thread and the count of batches stay), the file list and the
\* total stay, the processed counter is only moved by the handling of an
\* event, the error list and the events put only grow, the queue is never
\* replaced (it loses its head or gains the event just put) and the cancel
\* flag is never cleared.  A worker is therefore created only when none is
\* alive.
C12_StartRejectedWhileRunning ==
  [][WorkerRunning =>
       /\ worker_thread' = worker_thread
       /\ batches' = batches
       /\ w_files' = w_files
       /\ total_files' = total_files
       /\ processed_files' # processed_files => m_pc = "drain"
       /\ IsPrefix(errors, errors')
       /\ IsPrefix(emitted, emitted')
       /\ IsPrefix(handled, handled')
       /\ \/ update_queue' = update_queue
          \/ update_queue # <<>> /\ update_queue' = Tail(update_queue)
          \/ emitted' # emitted /\ update_queue' = Append(update_queue, Last(emitted'))
       /\ cancel_event => cancel_event']_vars

\* start_processing is called with the worker in the middle of the first
\* file of the first batch: the call returns after the warning, in this same
\* state.
C12_Witness ==
  /\ ENABLED StartProcessingRejected
  /\ batches = 1
  /\ w_pc = "write"
  /\ w_index = 1
  /\ folder_path # ""


\* The progress and error events put so far, in the order they were put.
FileEvents == SelectSeq(emitted, LAMBDA event : ~IsTerminal(event))

\* The worker is inside the call of the rewriter, or between its return (or
\* raise) and the put of the event of that file.
InFile == w_pc \in {"write", "flush", "progress", "except"}

\* C13: the n-th progress-or-error event put carries index n and the path at
\* position n of the file list, so the indices run 1, 2, 3, ... without gap,
\* repeat or reordering; no such event follows the terminal event; and the
\* files handed to the rewriter are those of the positions that have their
\* event, plus the one the worker is in.
C13_EventsInListOrder ==
  LET events == FileEvents IN
    /\ \A n \in 1..Len(events) :
         /\ events[n][1] \in {"progress", "error"}
         /\ events[n][2] = n
         /\ events[n][3] = w_files[n]
    /\ Len(events) <= Len(w_files)
    /\ IsPrefix(events, emitted)
    /\ w_pc # "none" => Len(events) = w_index - 1
    /\ accessed = 1..Len(events) \cup (IF InFile THEN {w_index} ELSE {})

\* Three files, the second of which failed: the events carry 1, 2, 3.
C13_Witness ==
  /\ w_pc = "dead"
  /\ Len(w_files) = 3
  /\ Len(FileEvents) = 3
  /\ FileEvents[1][1] = "progress"
  /\ FileEvents[2][1] = "error"
  /\ FileEvents[3] = <<"progress", 3, w_files[3]>>


\* cancel_processing called with the worker between two files: the file at
\* position w_index - 1 has its event and the check of line 127 for the file
\* at position w_index is still to come.
CancelBetweenFiles ==
  /\ WorkerRunning
  /\ w_pc = "loop"
  /\ w_index \in 2..Len(w_files)
  /\ CancelProcessing

\* The runs of the application in which cancel is only requested between two
\* files.
NextCancelBetweenFiles ==
  \/ SelectFolder
  \/ StartProcessingRejected
  \/ StartProcessingNothing
  \/ StartProcessing
  \/ CancelBetweenFiles
  \/ OnClose
  \/ PollEnter
  \/ PollGet
  \/ PollEmpty
  \/ PollAgain
  \/ PollComplete
  \/ WorkerLoop
  \/ WorkerRead
  \/ WorkerOpen
  \/ WorkerFlush
  \/ WorkerProgress
  \/ WorkerError
  \/ WorkerFinal
  \/ WorkerExit

SpecCancelBetweenFiles == InitBatch /\ [][NextCancelBetweenFiles]_vars

\* C14: when cancel was requested after the file at position k had finished
\* and before the check for the file at position k + 1 (so that this check
\* stopped the worker), the outcome reported at the end of the batch is
\* "cancelled" with processed = k.
C14_CancelReportsProcessed ==
  (report # None /\ stopped_at >= 2)
    => report = <<"cancelled", stopped_at - 1, total_files>>


\* The text of the file the worker is at.
TextAt(t) == t[w_files[w_index]].text

\* C15: the rewriter writes exactly when the scanned text differs from the
\* text read.  The tree changes only inside write_text, and only in the file
\* the worker is at; write_text is entered only with the scan result of the
\* text on disk, which differs from it; a file whose scan result equals its
\* text is left as it is and the call returns; a file whose scan result
\* differs goes to write_text, and when write_text returns the file holds
\* the scan result and nothing else.  The text written is one the scan
\* leaves unchanged, so that a later batch does not write the file again.
C15_WriteIffDiffers ==
  [][/\ tree' # tree =>
          /\ w_pc \in {"write", "flush"}
          /\ \A p \in DOMAIN tree : p # w_files[w_index] => tree'[p] = tree[p]
     /\ w_pc = "write" =>
          /\ w_cleaned = remove_c_comments(TextAt(tree))
          /\ w_cleaned # TextAt(tree)
     /\ (w_pc = "read" /\ w_pc' # "read" /\ tree[w_files[w_index]].kind = "file") =>
          IF remove_c_comments(TextAt(tree)) = TextAt(tree)
          THEN w_pc' = "progress" /\ tree' = tree
          ELSE w_pc' = "write"
     /\ (w_pc = "flush" /\ w_pc' # "flush") =>
          /\ w_pc' = "progress"
          /\ TextAt(tree') = w_cleaned
          /\ remove_c_comments(TextAt(tree')) = TextAt(tree')]_vars

\* A second batch over two or more files ended "done" without entering
\* write_text at all; one of the files is a .c file that held a comment
\* before the first batch.
C15_Witness ==
  /\ batches = 2
  /\ w_pc = "dead"
  /\ Len(w_files) >= 2
  /\ Last(emitted) = <<"done", None>>
  /\ errors = <<>>
  /\ w_cleaned = <<>>
  /\ \E p \in DOMAIN tree : tree[p] = Entry(".c", "file", CleanText)


\* The regular files of t whose name ends in .c or .h.
RegularTargets(t) ==
  {p \in DOMAIN t : t[p].kind = "file" /\ t[p].suffix \in {".c", ".h"}}

\* C16: the list collect_target_files returned for the batch holds exactly
\* the regular files of the tree whose extension is .c or .h, each once, no
\* directory and no entry with another extension, in ascending order of
\* path, whatever order the directory walk yielded them in.
C16_CollectsRegularFiles ==
  w_pc # "none" => w_files = Ascending(RegularTargets(tree))


\* The quote that ends a literal scanned in state st.
Terminator(st) == IF st = "string" THEN DQuote ELSE SQuote

\* The loop is about to scan the character at index i inside a literal.
InLiteral == scan_pc = "loop" /\ i < Len(source) /\ state \in {"string", "char"}

\* C17: inside a string or character literal a backslash that is not the
\* last character of the input is emitted together with the character after
\* it and both are skipped, the state staying as it is, so that the
\* character after the backslash is never looked at as a terminator; any
\* other character is emitted alone and ends the literal exactly when it is
\* the literal's quote, so that the quote after a backslash-backslash pair
\* ends it.
C17_EscapePairs ==
  [][(InLiteral /\ i' # i) =>
       IF At(source, i) = Backslash /\ i + 1 < Len(source)
       THEN /\ i' = i + 2
            /\ state' = state
            /\ result' = result \o <<Backslash, At(source, i + 1)>>
       ELSE /\ i' = i + 1
            /\ state' = IF At(source, i) = Terminator(state) THEN "default" ELSE state
            /\ result' = Append(result, At(source, i))]_vars

\* The character literal holding an escaped quote, followed by code: the
\* escaped quote did not end the literal, the one after it did.
C17_Witness ==
  /\ Returned
  /\ source = <<SQuote, Backslash, SQuote, SQuote, Other>>
  /\ state = "default"
  /\ result = source


\* l can be had from m by deleting elements of m.
RECURSIVE IsSubseq(_, _)
IsSubseq(l, m) ==
  IF l = <<>> THEN TRUE
  ELSE IF m = <<>> THEN FALSE
  ELSE IF Head(l) = Head(m) THEN IsSubseq(Tail(l), Tail(m))
  ELSE IsSubseq(l, Tail(m))

\* C18: every step of the scan loop moves the index forward, by one or two
\* characters and never past the end, so that no position is scanned twice;
\* the characters it passes are either all appended to the output, in their
\* order, or all dropped, so that the output is a subsequence of the input
\* scanned so far; and they are dropped only in a comment state or, in the
\* default state, when they are the two characters that open a comment.
C18_EmissionInvariant ==
  [][(scan_pc = "loop" /\ i' # i) =>
       LET passed == SubSeq(source, i + 1, i') IN
         /\ i' \in {i + 1, i + 2}
         /\ i' <= Len(source)
         /\ result' \in {result \o passed, result}
         /\ IsSubseq(result', SubSeq(source, 1, i'))
         /\ result' = result =>
              \/ state \in {"single_comment", "multi_comment"}
              \/ /\ state = "default"
                 /\ \/ passed = <<Slash, Slash>> /\ state' = "single_comment"
                    \/ passed = <<Slash, Star>> /\ state' = "multi_comment"]_vars

\* A division sign and an identifier kept, the line comment after them
\* dropped.
C18_Witness ==
  /\ Returned
  /\ source = <<Slash, Other, Slash, Slash, Other>>
  /\ result = <<Slash, Other>>
  /\ state = "single_comment"


\* A step of the worker thread.
WorkerStep ==
  \/ WorkerLoop
  \/ WorkerRead
  \/ WorkerOpen
  \/ WorkerFlush
  \/ WorkerProgress
  \/ WorkerError
  \/ WorkerFinal
  \/ WorkerExit

\* The last event put is a terminal one.
TerminalPut == emitted # <<>> /\ IsTerminal(Last(emitted))

\* C19: a started batch ends with exactly one terminal event.  A terminal
\* event is only ever the last event put; the worker stops only after
\* putting one; and until it has put one and stopped, the worker always has
\* a step to take, so that under fair scheduling it gets there.
C19_BatchEndsWithTerminalEvent ==
  w_pc # "none" =>
    /\ \A n \in 1..Len(emitted) : IsTerminal(emitted[n]) => n = Len(emitted)
    /\ WorkerFinished => TerminalPut
    /\ (TerminalPut /\ w_pc = "dead") \/ ENABLED WorkerStep


\* C20: the two characters of a comment delimiter are taken in one step.
\* The step that opens a comment passes the slash and the character after
\* it, so the scan of a block comment starts after the star of its opener;
\* the step that closes a block comment passes a star and the slash after
\* it, so the scan in the default state starts after that slash.  For a text
\* that starts with a block comment opener, the closing pair is therefore
\* looked for from the third character on, and what follows it is scanned
\* as a text of its own.
C20_DelimitersIndivisible ==
  [][/\ (scan_pc = "loop" /\ i' # i) =>
          LET passed == SubSeq(source, i + 1, i') IN
            /\ (state = "default" /\ state' = "single_comment") => passed = <<Slash, Slash>>
            /\ (state = "default" /\ state' = "multi_comment") => passed = <<Slash, Star>>
            /\ (state = "multi_comment" /\ state' = "default") => passed = <<Star, Slash>>
            /\ (state = "multi_comment" /\ state' = "multi_comment") => Len(passed) = 1
     /\ (scan_pc' = "returned" /\ Len(source) >= 2
           /\ source[1] = Slash /\ source[2] = Star) =>
          LET e == BlockEnd(source, 3) IN
            result' = KeepEol(SubSeq(source, 1, e))
                        \o remove_c_comments(SubSeq(source, e + 1, Len(source)))]_vars

\* The opener, a slash, and the closing pair: the star of the opener and the
\* slash after it did not close the comment, the pair after them did.
C20_Witness ==
  /\ Returned
  /\ source = <<Slash, Star, Slash, Star, Slash>>
  /\ state = "default"
  /\ result = <<>>


====
